---- MODULE Spec2Model ----
(***************************************************************************)
(* mcp-sync: one canonical MCP server registry pushed into the config      *)
(* files of several coding agents.  The model covers the canonical         *)
(* registry (ConfigManager), the adapters' write() with their merge /      *)
(* replace / force handling, atomicWrite with its backup, and pushCommand. *)
(*                                                                         *)
(* Files at different paths never influence each other, so a behaviour     *)
(* follows one config path per run (watch); writes that resolve to that    *)
(* path are the ones modelled.                                             *)
(***************************************************************************)
EXTENDS Integers, Sequences, FiniteSets, TLC

VARIABLES
    installed,  \* adapters whose detect() reports installed: true
    watch,      \* the scope whose config path this run follows
    config,     \* the persisted canonical registry (config.yaml)
    fs,         \* agent name -> the agent's config file, its .bak and .tmp
    last        \* outcome of the most recent command

vars == <<installed, watch, config, fs, last>>

\* ------------------------------------------------------------------------
\* Names and small input sets
\* ------------------------------------------------------------------------

Adapters == {"amp", "claude-code", "codex", "gemini-cli", "opencode", "roo-code"}

Stubs == {"kimi-code"}

Agents == Adapters \cup Stubs

Names == {"s1", "s2"}

ForeignNames == {"old"}

Scopes == {"global", "project", "local"}

\* The scopes the calls are drawn from: every adapter treats 'local' as it
\* treats 'global'.
CallScopes == {"global", "project"}

ServerTypes == {"stdio", "http"}

OtherKeys == {"someOtherSetting"}

NoAgent == "none"

Mode600 == 384

UserModes == {384, 420}

\* Mode of a file created by a plain writeFileSync: 0666 less the umask.
CreateMode == CHOOSE m \in UserModes : m # Mode600

EmptyMap == [n \in {} |-> n]

\* ------------------------------------------------------------------------
\* Agent config files
\* ------------------------------------------------------------------------

AbsentContent == [kind |-> "absent", other |-> {}, mcp |-> EmptyMap]

GarbageContent == [kind |-> "garbage", other |-> {}, mcp |-> EmptyMap]

JsonContent(other, mcp) == [kind |-> "json", other |-> other, mcp |-> mcp]

EmptyObject == JsonContent({}, EmptyMap)

ForeignRecord == [type |-> "user", field |-> "command"]

NoFile == [content |-> AbsentContent, mode |-> Mode600,
           bak |-> AbsentContent, bakMode |-> Mode600, tmp |-> FALSE]

Exists(f) == f.content.kind # "absent"

\* ------------------------------------------------------------------------
\* Capability descriptors
\* ------------------------------------------------------------------------

supportsHttp(a) == a \in Adapters

supportsAutoApprove(a) == a \in {"gemini-cli", "roo-code", "opencode"}

supportsCwd(a) == a = "gemini-cli"

\* ------------------------------------------------------------------------
\* BaseAdapter
\* ------------------------------------------------------------------------

\* Mutant: the missing HTTP support is reported as a warning, not an error.
validateHttpAsWarning(a, servers) ==
    { n \in DOMAIN servers : FALSE }

\* The error issues validate() reports for the given servers.
validateErrors(a, servers) ==
    { n \in DOMAIN servers : servers[n].type = "http" /\ ~supportsHttp(a) }

validate(a, servers) == [valid |-> validateErrors(a, servers) = {},
                         errors |-> validateErrors(a, servers)]

\* Mutant: the per-agent enabled flag is not consulted.
shouldIncludeIgnoresOverride(a, n, server, cfg) ==
    ~(\E e \in cfg.exclusions : e.server = n /\ e.agent = a)

\* Mutant: an override with enabled: true is consulted before the exclusions.
shouldIncludeOverrideFirst(a, n, server, cfg) ==
    LET excluded == \E e \in cfg.exclusions : e.server = n /\ e.agent = a
    IN  IF a \in DOMAIN server.agents THEN server.agents[a]
        ELSE ~excluded

shouldIncludeServer(a, n, server, cfg) ==
    LET excluded == \E e \in cfg.exclusions : e.server = n /\ e.agent = a
    IN  IF excluded THEN FALSE
        ELSE IF a \in DOMAIN server.agents /\ server.agents[a] = FALSE THEN FALSE
        ELSE TRUE

\* ------------------------------------------------------------------------
\* Per-agent transformers
\* ------------------------------------------------------------------------

nativeType(a, t) ==
    CASE a = "claude-code" -> t
      [] a = "opencode"    -> IF t = "stdio" THEN "local" ELSE "remote"
      [] a = "roo-code"    -> IF t = "stdio" THEN "unset" ELSE "streamable-http"
      [] OTHER             -> "unset"

nativeField(a, t) ==
    IF t = "stdio" THEN "command"
    ELSE IF a \in {"gemini-cli", "amp"} THEN "httpUrl" ELSE "url"

transformServer(a, server) ==
    [type |-> nativeType(a, server.type), field |-> nativeField(a, server.type)]

\* ------------------------------------------------------------------------
\* Environment-reference rewriting (Roo Code, OpenCode)
\*
\* A string is a sequence of one-character strings.  The three regular
\* expressions of the rewriters are matched as the regex engine matches
\* them: leftmost first, each class run greedy, the scan resuming after a
\* replaced match.
\* ------------------------------------------------------------------------

Upper == {"A", "B"}

Digits == {"1"}

Chars == Upper \cup Digits \cup {"$", "{", "}", ":", "-", "_", ".", "a", "e", "n", "v"}

\* [A-Z_] and [A-Z0-9_]
IdentStart == Upper \cup {"_"}

IdentChar == Upper \cup Digits \cup {"_"}

\* [^}:], [^}] and [^}:-]
NotCloseColon == Chars \ {"}", ":"}

NotClose == Chars \ {"}"}

NotCloseColonDash == Chars \ {"}", ":", "-"}

At(s, i) == IF i \in 1..Len(s) THEN s[i] ELSE "end"

\* First index from i on whose character is outside cls (Len(s) + 1 if none).
RECURSIVE RunEnd(_, _, _)
RunEnd(s, i, cls) ==
    IF i > Len(s) \/ s[i] \notin cls THEN i ELSE RunEnd(s, i + 1, cls)

NoMatch == [hit |-> FALSE, var |-> <<>>, end |-> 0]

\* /\$\{([^}:]+):-[^}]*\}/ anchored at i
matchDefault(s, i) ==
    LET v == RunEnd(s, i + 2, NotCloseColon)
        d == RunEnd(s, v + 2, NotClose)
    IN  IF /\ At(s, i) = "$" /\ At(s, i + 1) = "{" /\ v > i + 2
           /\ At(s, v) = ":" /\ At(s, v + 1) = "-" /\ At(s, d) = "}"
        THEN [hit |-> TRUE, var |-> SubSeq(s, i + 2, v - 1), end |-> d + 1]
        ELSE NoMatch

\* Mutant: /\$\{([^}]+)\}/, the name may hold a colon.
matchBracedAnyName(s, i) ==
    LET v == RunEnd(s, i + 2, NotClose)
    IN  IF /\ At(s, i) = "$" /\ At(s, i + 1) = "{" /\ v > i + 2 /\ At(s, v) = "}"
        THEN [hit |-> TRUE, var |-> SubSeq(s, i + 2, v - 1), end |-> v + 1]
        ELSE NoMatch

\* /\$\{([^}:]+)\}/ anchored at i
matchBraced(s, i) ==
    LET v == RunEnd(s, i + 2, NotCloseColon)
    IN  IF /\ At(s, i) = "$" /\ At(s, i + 1) = "{" /\ v > i + 2 /\ At(s, v) = "}"
        THEN [hit |-> TRUE, var |-> SubSeq(s, i + 2, v - 1), end |-> v + 1]
        ELSE NoMatch

\* /\$([A-Z_][A-Z0-9_]*)/ anchored at i
matchBare(s, i) ==
    LET v == RunEnd(s, i + 2, IdentChar)
    IN  IF At(s, i) = "$" /\ At(s, i + 1) \in IdentStart
        THEN [hit |-> TRUE, var |-> SubSeq(s, i + 1, v - 1), end |-> v]
        ELSE NoMatch

matchAt(form, s, i) ==
    CASE form = "default" -> matchDefault(s, i)
      [] form = "braced"  -> matchBraced(s, i)
      [] OTHER            -> matchBare(s, i)

\* The text before VAR in the target dialect: ${env: for Roo Code, {env: for
\* OpenCode.
DialectOpen(a) ==
    IF a = "roo-code" THEN <<"$", "{", "e", "n", "v", ":">>
    ELSE <<"{", "e", "n", "v", ":">>

\* value.replace(/form/g, '<open>$1}') from index i on.
RECURSIVE replaceAll(_, _, _, _)
replaceAll(form, s, i, open) ==
    IF i > Len(s) THEN <<>>
    ELSE LET m == matchAt(form, s, i)
         IN  IF m.hit
             THEN open \o m.var \o <<"}">> \o replaceAll(form, s, m.end, open)
             ELSE <<s[i]>> \o replaceAll(form, s, i + 1, open)

\* transformed.match(/\$\{([^}:]+):-[^}]*\}/g) is not null
hasDefault(s) == \E i \in 1..Len(s) : matchDefault(s, i).hit

\* The body of the loop of transformEnvForRoo / transformEnvForOpenCode for
\* one value: defaults first, then braced, then bare references.
rewriteValue(a, value) ==
    LET t1 == IF hasDefault(value)
              THEN replaceAll("default", value, 1, DialectOpen(a)) ELSE value
        t2 == replaceAll("braced", t1, 1, DialectOpen(a))
    IN  replaceAll("bare", t2, 1, DialectOpen(a))

\* transformEnvForRoo(env, warnings, serverName) and
\* transformEnvForOpenCode(env, warnings, serverName, context): the rewritten
\* map and the warnings pushed, each naming the server and the key.
transformEnvFor(a, env, serverName) ==
    [result   |-> [k \in DOMAIN env |-> rewriteValue(a, env[k])],
     warnings |-> { [server |-> serverName, key |-> k] :
                      k \in { x \in DOMAIN env : hasDefault(env[x]) } }]

\* ------------------------------------------------------------------------
\* Codex: headers of an HTTP server
\* ------------------------------------------------------------------------

\* /\$\{([^}:-]+)(?::-[^}]*)?\}/ anchored at i
matchRef(s, i) ==
    LET v == RunEnd(s, i + 2, NotCloseColonDash)
        d == RunEnd(s, v + 2, NotClose)
    IN  IF /\ At(s, i) = "$" /\ At(s, i + 1) = "{" /\ v > i + 2
           /\ \/ At(s, v) = "}"
              \/ At(s, v) = ":" /\ At(s, v + 1) = "-" /\ At(s, d) = "}"
        THEN [hit |-> TRUE, var |-> SubSeq(s, i + 2, v - 1), end |-> 0]
        ELSE NoMatch

\* authHeader.match(...): the first match in the value, or no match.
firstRef(s) ==
    LET hits == { i \in 1..Len(s) : matchRef(s, i).hit }
    IN  IF hits = {} THEN NoMatch
        ELSE matchRef(s, CHOOSE i \in hits : \A j \in hits : i <= j)

\* text.split(':-')[0]
RECURSIVE beforeDefault(_)
beforeDefault(text) ==
    IF text = <<>> THEN <<>>
    ELSE IF At(text, 1) = ":" /\ At(text, 2) = "-" THEN <<>>
    ELSE <<Head(text)>> \o beforeDefault(Tail(text))

\* value.startsWith('${') && value.endsWith('}')
looksLikeRef(value) ==
    At(value, 1) = "$" /\ At(value, 2) = "{" /\ At(value, Len(value)) = "}"

\* CodexAdapter.transformHttpServer, the bearer token and the two header maps.
codexHeaders(server) ==
    LET auth   == IF server.auth = "bearer" /\ "Authorization" \in DOMAIN server.headers
                  THEN firstRef(server.headers["Authorization"]) ELSE NoMatch
        bearer == IF auth.hit THEN {auth.var} ELSE {}
        rest   == { k \in DOMAIN server.headers : ~(k = "Authorization" /\ bearer # {}) }
        envKeys == { k \in rest : looksLikeRef(server.headers[k]) }
    IN  [bearer_token_env_var |-> bearer,
         http_headers |-> [k \in rest \ envKeys |-> server.headers[k]],
         env_http_headers |->
             [k \in envKeys |->
                beforeDefault(SubSeq(server.headers[k], 3, Len(server.headers[k]) - 1))]]

\* ------------------------------------------------------------------------
\* autoApprove and the other optional server features
\*
\* An autoApprove value is unset, false, true or a list of tool names.
\* ------------------------------------------------------------------------

Approve(kind, tools) == [kind |-> kind, tools |-> tools]

ApproveUnset == Approve("unset", <<>>)

ApproveFalse == Approve("false", <<>>)

ApproveTrue == Approve("true", <<>>)

\* Array.isArray(v)
isArray(v) == v.kind = "array"

\* JavaScript truthiness: true and every array, the empty one included.
truthy(v) == v.kind \in {"true", "array"}

\* server.autoApprove ?? config.defaults?.autoApprove
effectiveAutoApprove(server, cfg) ==
    IF server.autoApprove.kind # "unset" THEN server.autoApprove
    ELSE cfg.defaults.autoApprove

NoApproval == [field |-> "none", value |-> ApproveUnset]

\* Mutant: the tool list is emitted for every array, the empty one included.
approvalFieldAnyArray(a, server, cfg) ==
    LET e == effectiveAutoApprove(server, cfg)
    IN  CASE a = "gemini-cli" ->
                IF e.kind = "true" THEN [field |-> "trust", value |-> e] ELSE NoApproval
          [] a = "roo-code" ->
                IF isArray(e) THEN [field |-> "alwaysAllow", value |-> e] ELSE NoApproval
          [] a = "opencode" ->
                IF isArray(e) THEN [field |-> "autoApprove", value |-> e] ELSE NoApproval
          [] OTHER -> NoApproval

\* The approval member of the native record that transformStdioServer and
\* transformHttpServer build: trust for Gemini CLI, alwaysAllow for Roo Code,
\* autoApprove for OpenCode, none for Amp.
approvalField(a, server, cfg) ==
    LET e == effectiveAutoApprove(server, cfg)
    IN  CASE a = "gemini-cli" ->
                IF e.kind = "true" THEN [field |-> "trust", value |-> e] ELSE NoApproval
          [] a = "roo-code" ->
                IF isArray(e) /\ Len(e.tools) > 0
                THEN [field |-> "alwaysAllow", value |-> e] ELSE NoApproval
          [] a = "opencode" ->
                IF isArray(e) /\ Len(e.tools) > 0
                THEN [field |-> "autoApprove", value |-> e] ELSE NoApproval
          [] OTHER -> NoApproval

Issue(n, about) == [server |-> n, about |-> about]

\* The warning issues of BaseAdapter.validate(): an autoApprove value the
\* agent has no place for.  (The OAuth, tool-filtering and bearer checks
\* need an auth mode or tool lists, which these servers do not carry.)
validateWarnings(a, cfg) ==
    { Issue(n, "autoApprove") :
        n \in { m \in DOMAIN cfg.servers :
                  /\ truthy(effectiveAutoApprove(cfg.servers[m], cfg))
                  /\ ~supportsAutoApprove(a) } }

\* The warning the loop of write() adds for a server it keeps.
approvalWarning(a, server, cfg) ==
    LET e == effectiveAutoApprove(server, cfg)
    IN  CASE a = "gemini-cli" -> isArray(e)
          [] a \in {"roo-code", "opencode"} -> e.kind = "true"
          [] a = "amp" -> e.kind = "true" \/ (isArray(e) /\ Len(e.tools) > 0)
          [] OTHER -> FALSE

\* The loop of write() over config.servers: for every server that is
\* included and passes validation, validate()'s warnings, the adapter's own
\* autoApprove warning and the approval member of the record.
writeApprovals(a, cfg) ==
    LET keep == { n \in DOMAIN cfg.servers :
                    /\ shouldIncludeServer(a, n, cfg.servers[n], cfg)
                    /\ validateErrors(a, [m \in {n} |-> cfg.servers[m]]) = {} }
        one(n) == [cfg EXCEPT !.servers = [m \in {n} |-> cfg.servers[m]]]
    IN  [fields   |-> [n \in keep |-> approvalField(a, cfg.servers[n], cfg)],
         warnings |-> UNION { validateWarnings(a, one(n)) : n \in keep }
                      \cup { Issue(n, "approval") :
                               n \in { m \in keep :
                                         approvalWarning(a, cfg.servers[m], cfg) } }]

\* The loop at the top of every write(): the native records of the servers
\* that are included and pass validation.
computeServers(a, cfg) ==
    LET keep == { n \in DOMAIN cfg.servers :
                    /\ shouldIncludeServer(a, n, cfg.servers[n], cfg)
                    /\ validate(a, [m \in {n} |-> cfg.servers[m]]).valid }
    IN  [n \in keep |-> transformServer(a, cfg.servers[n])]

\* ------------------------------------------------------------------------
\* File system primitives used by the adapters
\* ------------------------------------------------------------------------

IOAtomic == {"ok", "copyFail", "tempFail", "renameFail"}

IODirect == {"ok", "openFail", "partial"}

\* unlinkSync(tempPath) in atomicWrite's catch block.
unlinkTemp(f) == [f EXCEPT !.tmp = FALSE]

\* Mutant: a backup that is already there is kept.
copyToBackupKeepsFirst(f) ==
    IF f.bak # AbsentContent THEN f
    ELSE [f EXCEPT !.bak = f.content, !.bakMode = f.mode]

\* copyFileSync(path, path.bak): the copy takes the source's content and,
\* as copyFile does, the source's permission bits.
copyToBackup(f) == [f EXCEPT !.bak = f.content, !.bakMode = f.mode]

\* atomicWrite(path, content, {mode, backup}); io names the step that fails.
\* ret is TRUE when a backup path is returned, FALSE for null.
atomicWrite(f, content, mode, backup, io) ==
    LET doBackup == backup /\ Exists(f)
        f1       == IF doBackup THEN copyToBackup(f) ELSE f
        f2       == [f1 EXCEPT !.tmp = TRUE]
    IN  IF doBackup /\ io = "copyFail"
        THEN [f |-> f, threw |-> TRUE, ret |-> FALSE]
        ELSE IF io \in {"tempFail", "renameFail"}
        THEN [f |-> unlinkTemp(f2), threw |-> TRUE, ret |-> FALSE]
        ELSE [f |-> [f2 EXCEPT !.content = content, !.mode = mode, !.tmp = FALSE],
              threw |-> FALSE, ret |-> doBackup]

\* writeFileSync(configPath, text) straight onto the target: a failure while
\* opening leaves the file alone, a failure while writing leaves it cut short.
writeFileSync(f, content, io) ==
    LET m == IF Exists(f) THEN f.mode ELSE CreateMode
    IN  IF io = "openFail" THEN [f |-> f, threw |-> TRUE, ret |-> FALSE]
        ELSE IF io = "partial"
        THEN [f |-> [f EXCEPT !.content = GarbageContent, !.mode = m],
              threw |-> TRUE, ret |-> FALSE]
        ELSE [f |-> [f EXCEPT !.content = content, !.mode = m],
              threw |-> FALSE, ret |-> FALSE]

\* ------------------------------------------------------------------------
\* Parsing the existing agent file
\* ------------------------------------------------------------------------

\* JSON.parse / TOML.parse: throw on malformed text.
strictParse(content) ==
    IF content.kind = "json" THEN [threw |-> FALSE, value |-> content]
    ELSE [threw |-> TRUE, value |-> EmptyObject]

\* jsonc-parser's parse(): fault tolerant, never throws; with nothing
\* salvaged the adapter's `?? {}` yields the empty object.
parseJsonc(content) ==
    IF content.kind = "json" THEN [threw |-> FALSE, value |-> content]
    ELSE [threw |-> FALSE, value |-> EmptyObject]

\* Mutant: { ...computed, ...existing }, the existing entry wins.
spreadExistingWins(existing, computed) ==
    [n \in DOMAIN existing \cup DOMAIN computed |->
        IF n \in DOMAIN existing THEN existing[n] ELSE computed[n]]

\* Mutant: a name found on both sides is deleted instead of overwritten.
spreadDropsOverwritten(existing, computed) ==
    [n \in (DOMAIN existing \cup DOMAIN computed) \ (DOMAIN existing \cap DOMAIN computed) |->
        IF n \in DOMAIN computed THEN computed[n] ELSE existing[n]]

\* { ...existing, ...computed }
spread(existing, computed) ==
    [n \in DOMAIN existing \cup DOMAIN computed |->
        IF n \in DOMAIN computed THEN computed[n] ELSE existing[n]]

\* ------------------------------------------------------------------------
\* Adapter write()
\* ------------------------------------------------------------------------

NoError == [kind |-> "none", namesPath |-> FALSE]

ParseError == [kind |-> "parse", namesPath |-> TRUE]

IOError == [kind |-> "io", namesPath |-> FALSE]

NotImplemented == [kind |-> "stub", namesPath |-> FALSE]

\* What a write() call hands back: the file afterwards, whether the promise
\* resolved with success: true or rejected, and the error.
WriteOutcome(f, w) ==
    [f |-> w.f, ok |-> ~w.threw, threw |-> w.threw,
     err |-> IF w.threw THEN IOError ELSE NoError, ret |-> w.ret]

ParseFailure(f) ==
    [f |-> f, ok |-> FALSE, threw |-> TRUE, err |-> ParseError, ret |-> FALSE]

\* The body shared by the adapters that read with a parser, honour force,
\* then merge or replace and persist through atomicWrite.
forceAwareWrite(servers, f, opts, parsed, io) ==
    LET existing == IF Exists(f) /\ ~parsed.threw THEN parsed.value ELSE EmptyObject
        mcp      == IF opts.merge THEN spread(existing.mcp, servers) ELSE servers
        next     == JsonContent(existing.other, mcp)
    IN  IF Exists(f) /\ parsed.threw /\ ~opts.force
        THEN ParseFailure(f)
        ELSE WriteOutcome(f, atomicWrite(f, next, Mode600, TRUE, io))

GeminiCliWrite(cfg, f, opts, io) ==
    forceAwareWrite(computeServers("gemini-cli", cfg), f, opts, strictParse(f.content), io)

AmpWrite(cfg, f, opts, io) ==
    forceAwareWrite(computeServers("amp", cfg), f, opts, strictParse(f.content), io)

RooCodeWrite(cfg, f, opts, io) ==
    forceAwareWrite(computeServers("roo-code", cfg), f, opts, strictParse(f.content), io)

OpenCodeWrite(cfg, f, opts, io) ==
    forceAwareWrite(computeServers("opencode", cfg), f, opts, parseJsonc(f.content), io)

\* CodexAdapter.write: only merge is read from the options; a parse failure
\* silently starts from an empty config; the TOML goes out with writeFileSync.
CodexWrite(cfg, f, opts, io) ==
    LET servers  == computeServers("codex", cfg)
        parsed   == strictParse(f.content)
        existing == IF Exists(f) /\ ~parsed.threw THEN parsed.value ELSE EmptyObject
        mcp      == IF opts.merge THEN spread(existing.mcp, servers) ELSE servers
    IN  WriteOutcome(f, writeFileSync(f, JsonContent(existing.other, mcp), io))

\* ClaudeCodeAdapter.write(config, scope): the second parameter is a scope
\* string.  A caller that passes an options object binds the object to scope,
\* which then equals neither 'project' nor anything else.
ClaudeCodeWrite(cfg, f, opts, io) ==
    LET servers  == computeServers("claude-code", cfg)
        parsed   == strictParse(f.content)
        existing == IF Exists(f) /\ ~parsed.threw THEN parsed.value ELSE EmptyObject
        project  == opts.style = "scope" /\ opts.scope = "project"
        next     == IF project
                    THEN JsonContent({}, servers)
                    ELSE JsonContent(existing.other, spread(existing.mcp, servers))
    IN  WriteOutcome(f, writeFileSync(f, next, io))

StubWrite(f) ==
    [f |-> f, ok |-> FALSE, threw |-> TRUE, err |-> NotImplemented, ret |-> FALSE]

AdapterWrite(a, cfg, f, opts, io) ==
    CASE a = "gemini-cli"  -> GeminiCliWrite(cfg, f, opts, io)
      [] a = "amp"         -> AmpWrite(cfg, f, opts, io)
      [] a = "roo-code"    -> RooCodeWrite(cfg, f, opts, io)
      [] a = "opencode"    -> OpenCodeWrite(cfg, f, opts, io)
      [] a = "codex"       -> CodexWrite(cfg, f, opts, io)
      [] a = "claude-code" -> ClaudeCodeWrite(cfg, f, opts, io)
      [] OTHER             -> StubWrite(f)

\* Which of the adapter's paths a call resolves to.
configPath(a, opts) ==
    CASE a = "codex"       -> "global"
      [] a = "claude-code" -> IF opts.style = "scope" /\ opts.scope = "project"
                              THEN "project" ELSE "global"
      [] OTHER             -> IF opts.scope = "project" THEN "project" ELSE "global"

IOFor(a) == IF a \in {"codex", "claude-code"} THEN IODirect ELSE IOAtomic

\* The paths an adapter has (getConfigPaths).
PathsOf(a) == IF a = "codex" THEN {"global"} ELSE {"global", "project"}

\* ------------------------------------------------------------------------
\* Canonical registry (ConfigManager)
\* ------------------------------------------------------------------------

NoConfig == [exists |-> FALSE, servers |-> EmptyMap, exclusions |-> {}, agentsOff |-> {}]

\* The defaultConfig that init() saves.
DefaultConfig == [exists |-> TRUE, servers |-> EmptyMap, exclusions |-> {}, agentsOff |-> {}]

\* Per-agent override inputs: no override, or an enabled flag for one agent.
OverrideInputs ==
    {EmptyMap} \cup { [x \in {a} |-> b] : a \in installed, b \in BOOLEAN }

ServerInputs == [type : ServerTypes, agents : OverrideInputs]

NoFlags == [merge |-> FALSE, dryRun |-> FALSE]

NoIssues == [valid |-> TRUE, errors |-> {}]

\* One env / header value on its way through a rewriter: the pieces it was
\* put together from, the value, the rewritten value and the warnings.
EnvRun(parts, value, out, warnings, again) ==
    [parts |-> parts, value |-> value, out |-> out, warnings |-> warnings,
     again |-> again]

NoEnv == EnvRun(<<>>, <<>>, <<>>, {}, FALSE)

\* The header part of a CodexHttpServer record; bearer_token_env_var is a
\* set holding the name, empty when the field is not set.
NoNative == [bearer_token_env_var |-> {}, http_headers |-> EmptyMap,
             env_http_headers |-> EmptyMap]

\* What a call about the optional server features hands back: the approval
\* member per written server and the warnings / issues.
NoFeatures == [fields |-> EmptyMap, warnings |-> {}]

\* A detectAll() call: whether MCP_SYNC_SKIP_DETECT=1 was set, what each
\* adapter's own detect() would do, and the Map that came back.
NoDetect == [skip |-> FALSE, env |-> EmptyMap, results |-> EmptyMap]

\* An error of the ConfigManager: its kind (the message's wording) and, for a
\* schema error, the field paths the message lists.
Err(kind, paths) == [kind |-> kind, paths |-> paths]

NoErr == Err("none", {})

\* A call of init / addServer / removeServer / updateServer: the server name
\* and force / overwrite flag it was given, whether it threw, the error (or
\* the message printed), and removeServer's return value.
Api(name, force, threw, err, ret) ==
    [name |-> name, force |-> force, threw |-> threw, err |-> err, ret |-> ret]

NoApi == Api("none", FALSE, FALSE, NoErr, FALSE)

\* What a command leaves behind: its exit status, the agent argument and
\* flags it was given, the write() outcomes (res), the per-agent spinner
\* outcome (status) and the two counters of push's summary line.
Report(op, exit) ==
    [op |-> op, exit |-> exit, agent |-> NoAgent, flags |-> NoFlags,
     res |-> EmptyMap, status |-> EmptyMap, successCount |-> 0, errorCount |-> 0,
     val |-> NoIssues, env |-> NoEnv, native |-> NoNative, feat |-> NoFeatures,
     detect |-> NoDetect, api |-> NoApi]

PushReport(exit, o, dryRun) ==
    [Report("push", exit) EXCEPT !.flags = [merge |-> o.merge, dryRun |-> dryRun]]

\* mcp-sync init [--force]: initCommand.  On an existing config without
\* --force it prints 'Config file already exists' and returns; otherwise it
\* calls configManager.init(options.force), which saves the defaults.
InitCmd(force) ==
    /\ IF config.exists /\ ~force
       THEN /\ last' = [Report("init", 0) EXCEPT
                          !.api = Api("none", force, FALSE, Err("configExists", {}), FALSE)]
            /\ UNCHANGED config
       ELSE /\ config' = DefaultConfig
            /\ last' = [Report("init", 0) EXCEPT
                          !.api = Api("none", force, FALSE, NoErr, FALSE)]
    /\ UNCHANGED <<installed, watch, fs>>

\* mcp-sync add <name>: ConfigManager.addServer
AddServer(n, server) ==
    /\ IF ~config.exists \/ n \in DOMAIN config.servers
       THEN /\ last' = Report("add", 1)
            /\ UNCHANGED config
       ELSE /\ config' = [config EXCEPT !.servers =
                            [m \in DOMAIN config.servers \cup {n} |->
                                IF m = n THEN server ELSE config.servers[m]]]
            /\ last' = Report("add", 0)
    /\ UNCHANGED <<installed, watch, fs>>

\* mcp-sync remove <name>: ConfigManager.removeServer
RemoveServer(n) ==
    /\ IF ~config.exists
       THEN /\ last' = Report("remove", 1)
            /\ UNCHANGED config
       ELSE IF n \notin DOMAIN config.servers
       THEN /\ last' = Report("remove", 0)
            /\ UNCHANGED config
       ELSE /\ config' = [config EXCEPT
                            !.servers = [m \in DOMAIN config.servers \ {n} |-> config.servers[m]],
                            !.exclusions = { e \in config.exclusions : e.server # n }]
            /\ last' = Report("remove", 0)
    /\ UNCHANGED <<installed, watch, fs>>

\* ------------------------------------------------------------------------
\* ConfigManager as an object: the persisted file and the manager's loaded
\* copy (this.config).
\*
\* A manager m is the registry record with one more member, cache: the
\* object get() hands out.  addServer, removeServer and updateServer change
\* that object in place and then call save(), which validates before it
\* writes.  A server here carries what the schema looks at: its type,
\* whether it has a command, and its url (none, a valid one, an invalid one).
\* ------------------------------------------------------------------------

NoCache == [loaded |-> FALSE, servers |-> EmptyMap, exclusions |-> {}]

Loaded(servers, exclusions) ==
    [loaded |-> TRUE, servers |-> servers, exclusions |-> exclusions]

Path(n, field) == [server |-> n, field |-> field]

\* validateConfigSafe(config): the field paths of the issues zod reports.
\* A stdio entry needs a command, an http entry a url that is a valid URL.
validateConfigSafe(servers) ==
    { Path(n, "command") :
        n \in { m \in DOMAIN servers :
                  servers[m].type = "stdio" /\ ~servers[m].command } }
    \cup { Path(n, "url") :
             n \in { m \in DOMAIN servers :
                       servers[m].type = "http" /\ servers[m].url # "good" } }

Returned(m, ret) == [m |-> m, threw |-> FALSE, err |-> NoErr, ret |-> ret]

Thrown(m, err) == [m |-> m, threw |-> TRUE, err |-> err, ret |-> FALSE]

\* get(): the loaded copy, loading the file first when there is none yet.
get(m) ==
    IF m.cache.loaded THEN Returned(m, TRUE)
    ELSE IF ~m.exists THEN Thrown(m, Err("notFound", {}))
    ELSE Returned([m EXCEPT !.cache = Loaded(m.servers, m.exclusions)], TRUE)

\* Mutant: the file is written before the config is validated.
saveWritesFirst(m, servers, exclusions) ==
    LET paths   == validateConfigSafe(servers)
        written == [m EXCEPT !.exists = TRUE, !.servers = servers,
                             !.exclusions = exclusions]
    IN  IF paths # {} THEN Thrown(written, Err("schema", paths))
        ELSE Returned([written EXCEPT !.cache = Loaded(servers, exclusions)], TRUE)

\* save(config): validate, then write the YAML and keep config as this.config.
save(m, servers, exclusions) ==
    LET paths == validateConfigSafe(servers)
    IN  IF paths # {} THEN Thrown(m, Err("schema", paths))
        ELSE Returned([m EXCEPT !.exists = TRUE, !.servers = servers,
                                !.exclusions = exclusions,
                                !.cache = Loaded(servers, exclusions)], TRUE)

\* init(overwrite)
init(m, overwrite) ==
    IF m.exists /\ ~overwrite THEN Thrown(m, Err("configExists", {}))
    ELSE save(m, EmptyMap, {})

\* Mutant: an existing entry of the same name is overwritten.
addServerOverwrites(m, n, server) ==
    LET g == get(m)
    IN  IF g.threw THEN g
        ELSE LET servers == [x \in DOMAIN g.m.cache.servers \cup {n} |->
                               IF x = n THEN server ELSE g.m.cache.servers[x]]
                 m1      == [g.m EXCEPT !.cache.servers = servers]
             IN  save(m1, servers, m1.cache.exclusions)

\* addServer(name, server)
addServer(m, n, server) ==
    LET g == get(m)
    IN  IF g.threw THEN g
        ELSE IF n \in DOMAIN g.m.cache.servers
        THEN Thrown(g.m, Err("serverExists", {}))
        ELSE LET servers == [x \in DOMAIN g.m.cache.servers \cup {n} |->
                               IF x = n THEN server ELSE g.m.cache.servers[x]]
                 m1      == [g.m EXCEPT !.cache.servers = servers]
             IN  save(m1, servers, m1.cache.exclusions)

\* Mutant: the exclusion rules are left as they are.
removeServerKeepsExclusions(m, n) ==
    LET g == get(m)
    IN  IF g.threw THEN g
        ELSE IF n \notin DOMAIN g.m.cache.servers
        THEN Returned(g.m, FALSE)
        ELSE LET servers == [x \in DOMAIN g.m.cache.servers \ {n} |->
                               g.m.cache.servers[x]]
                 m1      == [g.m EXCEPT !.cache.servers = servers]
             IN  save(m1, servers, m1.cache.exclusions)

\* removeServer(name)
removeServer(m, n) ==
    LET g == get(m)
    IN  IF g.threw THEN g
        ELSE IF n \notin DOMAIN g.m.cache.servers
        THEN Returned(g.m, FALSE)
        ELSE LET servers == [x \in DOMAIN g.m.cache.servers \ {n} |->
                               g.m.cache.servers[x]]
                 excl    == { e \in g.m.cache.exclusions : e.server # n }
                 m1      == [g.m EXCEPT !.cache.servers = servers,
                                        !.cache.exclusions = excl]
             IN  save(m1, servers, excl)

Keep == "keep"

\* { ...existing, ...updates }: a member that updates has replaces the
\* existing one.
spreadUpdates(existing, updates) ==
    [type    |-> IF updates.type = Keep THEN existing.type ELSE updates.type,
     agents  |-> existing.agents,
     command |-> existing.command,
     url     |-> IF updates.url = Keep THEN existing.url ELSE updates.url]

\* updateServer(name, updates)
updateServer(m, n, updates) ==
    LET g == get(m)
    IN  IF g.threw THEN g
        ELSE IF n \notin DOMAIN g.m.cache.servers
        THEN Thrown(g.m, Err("serverNotFound", {}))
        ELSE LET servers == [g.m.cache.servers EXCEPT
                               ![n] = spreadUpdates(g.m.cache.servers[n], updates)]
                 m1      == [g.m EXCEPT !.cache.servers = servers]
             IN  save(m1, servers, m1.cache.exclusions)

\* ------------------------------------------------------------------------
\* The agent's own config file, created outside mcp-sync
\* ------------------------------------------------------------------------

PresetContents ==
    { GarbageContent,
      JsonContent({}, EmptyMap),
      JsonContent(OtherKeys, [n \in ForeignNames |-> ForeignRecord]),
      JsonContent(OtherKeys, [n \in {"s1"} \cup ForeignNames |-> ForeignRecord]) }

UserCreatesFile(a, content, mode) ==
    /\ ~Exists(fs[a])
    /\ fs' = [fs EXCEPT ![a] = [@ EXCEPT !.content = content, !.mode = mode]]
    /\ last' = Report("user", 0)
    /\ UNCHANGED <<installed, watch, config>>

\* ------------------------------------------------------------------------
\* adapter.write(config, options) called directly
\* ------------------------------------------------------------------------

CallOptions(a) ==
    [style : {"options"}, scope : CallScopes, merge : BOOLEAN, force : BOOLEAN]
    \cup (IF a = "claude-code"
          THEN [style : {"scope"}, scope : CallScopes, merge : {FALSE}, force : {FALSE}]
          ELSE {})

\* TRUE when the command before this one was a successful merge write to the
\* same agent: the registry is then the same for both writes.
FollowsMerge(a) ==
    /\ last.op \in {"write", "push"}
    /\ a \in DOMAIN last.res
    /\ last.res[a].ok
    /\ last.res[a].merge

WriteRecord(a, merge, force, out) ==
    [merge |-> merge, force |-> force, before |-> fs[a],
     ok |-> out.ok, threw |-> out.threw, err |-> out.err, ret |-> out.ret,
     again |-> merge /\ out.ok /\ FollowsMerge(a)]

Write(a, opts, io) ==
    /\ config.exists
    /\ configPath(a, opts) = watch
    /\ LET out == AdapterWrite(a, config, fs[a], opts, io)
       IN  /\ fs' = [fs EXCEPT ![a] = out.f]
           /\ last' = [Report("write", 0) EXCEPT
                         !.flags = [merge |-> opts.merge, dryRun |-> FALSE],
                         !.res = [x \in {a} |-> WriteRecord(a, opts.merge, opts.force, out)]]
    /\ UNCHANGED <<installed, watch, config>>

\* adapter.validate(config) called directly.
Validate(a) ==
    /\ config.exists
    /\ last' = [Report("validate", 0) EXCEPT
                  !.agent = a, !.val = validate(a, config.servers)]
    /\ UNCHANGED <<installed, watch, config, fs>>

\* ------------------------------------------------------------------------
\* mcp-sync push [agent] [--scope s] [--merge] [--force] [--dry-run]
\* ------------------------------------------------------------------------

PushArgs == installed \cup {NoAgent, "bogus"}

PushOptions == [scope : CallScopes, merge : BOOLEAN, force : BOOLEAN]

\* The options object pushCommand builds for adapter.write: scope and merge.
\* PushOptions has no force member, so write() sees its default, false.
pushWriteOptions(o) ==
    [style |-> "options", scope |-> o.scope, merge |-> o.merge, force |-> FALSE]

\* Mutant: the dry-run branch is missing, the write goes ahead.
pushOneIgnoresDryRun(a, o, dryRun, io) ==
    IF a \in config.agentsOff
    THEN [status |-> "skipped", wrote |-> FALSE, out |-> StubWrite(fs[a])]
    ELSE IF ~validate(a, config.servers).valid
    THEN [status |-> "error", wrote |-> FALSE, out |-> StubWrite(fs[a])]
    ELSE LET out == AdapterWrite(a, config, fs[a], pushWriteOptions(o), io)
         IN  [status |-> IF out.ok THEN "success" ELSE "error",
              wrote |-> TRUE, out |-> out]

\* One turn of the loop over adaptersToSync.
pushOne(a, o, dryRun, io) ==
    IF a \in config.agentsOff
    THEN [status |-> "skipped", wrote |-> FALSE, out |-> StubWrite(fs[a])]
    ELSE IF ~validate(a, config.servers).valid
    THEN [status |-> "error", wrote |-> FALSE, out |-> StubWrite(fs[a])]
    ELSE IF dryRun
    THEN [status |-> "success", wrote |-> FALSE, out |-> StubWrite(fs[a])]
    ELSE LET out == AdapterWrite(a, config, fs[a], pushWriteOptions(o), io)
         IN  [status |-> IF out.ok THEN "success" ELSE "error",
              wrote |-> TRUE, out |-> out]

\* The order in which the registry hands out its adapters (Map insertion
\* order of the constructor's register calls).
AdapterOrder ==
    <<"amp", "claude-code", "codex", "gemini-cli", "opencode", "roo-code", "kimi-code">>

Registered == { AdapterOrder[i] : i \in DOMAIN AdapterOrder }

\* What an adapter's detect() does in the environment at hand: it finds the
\* agent's CLI, does not find it, or throws.
DetectOutcomes == {"found", "missing", "throws"}

NotDetected == [installed |-> FALSE, configExists |-> FALSE]

\* StubAdapter.detect()
StubDetect == [installed |-> FALSE, configExists |-> FALSE]

\* Mutant: MCP_SYNC_SKIP_DETECT=1 is applied to stub adapters as well.
detectOneSkipsStubsToo(a, skipDetect, outcome) ==
    IF skipDetect
    THEN [installed |-> TRUE, configExists |-> FALSE]
    ELSE IF outcome = "throws" THEN NotDetected
    ELSE IF a \in Stubs THEN StubDetect
    ELSE [installed |-> outcome = "found", configExists |-> FALSE]

\* The body of detectAll's loop for one adapter.
detectOne(a, skipDetect, outcome) ==
    IF skipDetect /\ a \notin Stubs
    THEN [installed |-> TRUE, configExists |-> FALSE]
    ELSE IF outcome = "throws" THEN NotDetected
    ELSE IF a \in Stubs THEN StubDetect
    ELSE [installed |-> outcome = "found", configExists |-> FALSE]

\* AdapterRegistry.detectAll(): one entry per registered adapter.
detectAll(skipDetect, env) ==
    [a \in Registered |-> detectOne(a, skipDetect, env[a])]

\* AdapterRegistry.getInstalled(): the adapters detected as installed, in
\* registration order.
getInstalled(skipDetect, env) ==
    LET detections == detectAll(skipDetect, env)
        isIn(a)    == detections[a].installed
    IN  SelectSeq(AdapterOrder, isIn)

NoProgress == [status |-> EmptyMap, outs |-> EmptyMap, successCount |-> 0, errorCount |-> 0]

\* Mutant: the loop is left at the first agent that fails.
RECURSIVE pushLoopStopsAtFailure(_, _, _, _, _)
pushLoopStopsAtFailure(todo, o, dryRun, ios, acc) ==
    IF todo = <<>> THEN acc
    ELSE LET a    == Head(todo)
             st   == pushOne(a, o, dryRun, ios[a])
             acc1 == [status |-> [x \in DOMAIN acc.status \cup {a} |->
                                    IF x = a THEN st.status ELSE acc.status[x]],
                      outs |-> IF st.wrote
                               THEN [x \in DOMAIN acc.outs \cup {a} |->
                                       IF x = a THEN st.out ELSE acc.outs[x]]
                               ELSE acc.outs,
                      successCount |-> acc.successCount
                                         + (IF st.status = "success" THEN 1 ELSE 0),
                      errorCount |-> acc.errorCount
                                         + (IF st.status = "error" THEN 1 ELSE 0)]
         IN  IF st.status = "error" THEN acc1
             ELSE pushLoopStopsAtFailure(Tail(todo), o, dryRun, ios, acc1)

\* for (const adapter of adaptersToSync): each turn records the agent's
\* outcome and bumps one counter, or none for an agent disabled in the config.
RECURSIVE pushLoop(_, _, _, _, _)
pushLoop(todo, o, dryRun, ios, acc) ==
    IF todo = <<>> THEN acc
    ELSE LET a    == Head(todo)
             st   == pushOne(a, o, dryRun, ios[a])
             acc1 == [status |-> [x \in DOMAIN acc.status \cup {a} |->
                                    IF x = a THEN st.status ELSE acc.status[x]],
                      outs |-> IF st.wrote
                               THEN [x \in DOMAIN acc.outs \cup {a} |->
                                       IF x = a THEN st.out ELSE acc.outs[x]]
                               ELSE acc.outs,
                      successCount |-> acc.successCount
                                         + (IF st.status = "success" THEN 1 ELSE 0),
                      errorCount |-> acc.errorCount
                                         + (IF st.status = "error" THEN 1 ELSE 0)]
         IN  pushLoop(Tail(todo), o, dryRun, ios, acc1)

Push(agentArg, o, dryRun, ios) ==
    LET isInstalled(a) == a \in installed
        toSync == IF agentArg = NoAgent
                  THEN SelectSeq(AdapterOrder, isInstalled)
                  ELSE <<agentArg>>
        report(exit) == [PushReport(exit, o, dryRun) EXCEPT !.agent = agentArg]
    IN  /\ IF ~config.exists
           THEN /\ last' = report(1)
                /\ UNCHANGED fs
           ELSE IF DOMAIN config.servers = {}
           THEN /\ last' = report(0)
                /\ UNCHANGED fs
           ELSE IF agentArg # NoAgent /\ (agentArg \notin Agents \/ agentArg \notin installed)
           THEN /\ last' = report(1)
                /\ UNCHANGED fs
           ELSE LET done  == pushLoop(toSync, o, dryRun, ios, NoProgress)
                    wrote == DOMAIN done.outs
                IN  /\ \A a \in wrote : configPath(a, pushWriteOptions(o)) = watch
                    /\ fs' = [a \in DOMAIN fs |->
                                IF a \in wrote THEN done.outs[a].f ELSE fs[a]]
                    /\ last' = [report(0) EXCEPT
                                  !.res = [a \in wrote |->
                                             WriteRecord(a, o.merge, o.force, done.outs[a])],
                                  !.status = done.status,
                                  !.successCount = done.successCount,
                                  !.errorCount = done.errorCount]
        /\ UNCHANGED <<installed, watch, config>>

\* ------------------------------------------------------------------------
\* Specifications
\* ------------------------------------------------------------------------

InstalledChoices == { {a} : a \in Adapters }

IOChoices == { g \in [installed -> IOAtomic \cup IODirect] :
                 \A a \in installed : g[a] \in IOFor(a) }

PlainServers == { sv \in ServerInputs : sv.agents = EmptyMap }

\* Registries for the write-level runs: s1 takes every server input and may
\* be excluded for the installed agent, s2 is a plain companion.
RegistryChoices ==
    { [exists |-> TRUE, servers |-> sm, exclusions |-> ex, agentsOff |-> {}] :
        sm \in { m \in UNION { [d -> ServerInputs] : d \in SUBSET Names } :
                   "s2" \in DOMAIN m => m["s2"] \in PlainServers },
        ex \in SUBSET { [server |-> "s1", agent |-> a] : a \in installed } }

\* Spec: adapter.write() called on a loaded registry, against an agent file
\* the user may have created beforehand.
Init ==
    /\ installed \in InstalledChoices
    /\ watch \in {"global", "project"}
    /\ \A a \in installed : watch \in PathsOf(a)
    /\ config \in RegistryChoices
    /\ fs = [a \in installed |-> NoFile]
    /\ last = Report("none", 0)

Next ==
    \/ \E a \in installed, content \in PresetContents, mode \in UserModes :
          UserCreatesFile(a, content, mode)
    \/ \E a \in installed :
          \E opts \in CallOptions(a), io \in IOFor(a) : Write(a, opts, io)

Spec == Init /\ [][Next]_vars

\* SpecPush: the CLI commands init, add, remove and push run one after the
\* other against the global config paths.
PushPresets ==
    { GarbageContent, JsonContent(OtherKeys, [n \in ForeignNames |-> ForeignRecord]) }

PushServers == { sv \in PlainServers : sv.type = "stdio" }

\* --scope values that resolve to the path this run follows.
WatchedOptions == { o \in PushOptions : o.scope = watch }

InitPush ==
    /\ installed \in InstalledChoices
    /\ watch = "global"
    /\ config = NoConfig
    /\ fs = [a \in installed |-> NoFile]
    /\ last = Report("none", 0)

NextPush ==
    \/ \E force \in BOOLEAN : InitCmd(force)
    \/ \E n \in Names, server \in PushServers : AddServer(n, server)
    \/ \E n \in Names : RemoveServer(n)
    \/ \E a \in installed, content \in PushPresets :
          UserCreatesFile(a, content, CreateMode)
    \/ \E agentArg \in PushArgs, o \in WatchedOptions, dryRun \in BOOLEAN, ios \in IOChoices :
          Push(agentArg, o, dryRun, ios)

SpecPush == InitPush /\ [][NextPush]_vars

\* SpecEnv: one env value of server s1, key K, is put together from pieces
\* and handed to the rewriter of Roo Code or OpenCode, and the result is
\* handed to the rewriter once more.
MaxPieces == 3

Piece(kind, text, var) == [kind |-> kind, text |-> text, var |-> var]

\* ${env:A} for Roo Code, {env:A} for OpenCode
Converted(a) == DialectOpen(a) \o <<"A", "}">>

Pieces(a) ==
    { Piece("lit", <<"a">>, <<>>),
      Piece("lit", <<"_">>, <<>>),
      Piece("conv", Converted(a), <<>>),
      Piece("braced", <<"$", "{", "B", "}">>, <<"B">>),
      Piece("default", <<"$", "{", "B", ":", "-", "a", "}">>, <<"B">>),
      Piece("default", <<"$", "{", "B", ":", "-", "$", "{", "A", "}", "}">>, <<"B">>),
      Piece("bare", <<"$", "B">>, <<"B">>),
      Piece("dollar", <<"$", "a">>, <<>>),
      Piece("dollar", <<"$", "1", ".", "1">>, <<>>),
      Piece("dollar", <<"$", "A", "a">>, <<>>),
      Piece("junk", <<"$", "{">>, <<>>),
      Piece("junk", <<"}">>, <<>>) }

EnvInputs(a) == UNION { [1..n -> Pieces(a)] : n \in 1..MaxPieces }

RECURSIVE Flatten(_)
Flatten(parts) ==
    IF parts = <<>> THEN <<>> ELSE Head(parts).text \o Flatten(Tail(parts))

EnvKey == "K"

EnvServer == "s1"

Rewriters == {"roo-code", "opencode"}

\* transformEnvFor*({K: value}, warnings, "s1")
TransformEnv(a) ==
    /\ last.op = "none"
    /\ LET t == transformEnvFor(a, [k \in {EnvKey} |-> last.env.value], EnvServer)
       IN  last' = [Report("transformEnv", 0) EXCEPT
                      !.agent = a,
                      !.env = EnvRun(last.env.parts, last.env.value,
                                     t.result[EnvKey], t.warnings, FALSE)]
    /\ UNCHANGED <<installed, watch, config, fs>>

\* The rewriter applied to its own output.
TransformAgain(a) ==
    /\ last.op = "transformEnv"
    /\ ~last.env.again
    /\ LET t == transformEnvFor(a, [k \in {EnvKey} |-> last.env.out], EnvServer)
       IN  last' = [last EXCEPT
                      !.env = EnvRun(last.env.parts, last.env.out,
                                     t.result[EnvKey], t.warnings, TRUE)]
    /\ UNCHANGED <<installed, watch, config, fs>>

InitEnv ==
    /\ installed \in { {a} : a \in Rewriters }
    /\ watch = "global"
    /\ config = DefaultConfig
    /\ fs = [a \in installed |-> NoFile]
    /\ \E a \in installed : \E parts \in EnvInputs(a) :
          last = [Report("none", 0) EXCEPT
                    !.env = EnvRun(parts, Flatten(parts), <<>>, {}, FALSE)]

NextEnv ==
    \/ \E a \in installed : TransformEnv(a)
    \/ \E a \in installed : TransformAgain(a)

SpecEnv == InitEnv /\ [][NextEnv]_vars

\* SpecHeaders: the registry holds one HTTP server with up to two headers,
\* each value put together from pieces, and Codex transforms it.
HeaderKeys == {"Authorization", "X-Key"}

HeaderPieces ==
    { Piece("lit", <<"a">>, <<>>),
      Piece("braced", <<"$", "{", "A", "}">>, <<"A">>),
      Piece("braced", <<"$", "{", "B", "}">>, <<"B">>) }

HeaderInputs == UNION { [1..n -> HeaderPieces] : n \in 1..MaxPieces }

AuthModes == {"none", "bearer"}

\* The pieces are kept next to the value (parts) for the properties to read.
HttpServerInputs ==
    { [type |-> "http", agents |-> EmptyMap, auth |-> auth,
       parts |-> ps, headers |-> [k \in DOMAIN ps |-> Flatten(ps[k])]] :
        auth \in AuthModes,
        ps \in UNION { [ks -> HeaderInputs] : ks \in SUBSET HeaderKeys } }

\* transformHttpServer(config.servers.s1, config)
CodexTransformHttp ==
    /\ last.op = "none"
    /\ last' = [Report("transformHttp", 0) EXCEPT
                  !.agent = "codex",
                  !.native = codexHeaders(config.servers["s1"])]
    /\ UNCHANGED <<installed, watch, config, fs>>

InitHeaders ==
    /\ installed = {"codex"}
    /\ watch = "global"
    /\ \E server \in HttpServerInputs :
          config = [DefaultConfig EXCEPT !.servers = [n \in {"s1"} |-> server]]
    /\ fs = [a \in installed |-> NoFile]
    /\ last = Report("none", 0)

NextHeaders == CodexTransformHttp

SpecHeaders == InitHeaders /\ [][NextHeaders]_vars

\* SpecBulk: two agents installed next to the planned (stub) agent; the
\* registry may disable, exclude or override per agent; push runs in bulk or
\* for one named agent, and validate() / write() are also called directly.
InstalledPairs ==
    { {"amp", "codex"}, {"claude-code", "gemini-cli"}, {"opencode", "roo-code"} }

\* s1 is of either type and may carry an enabled: false override for one
\* installed agent; s2 is a plain stdio companion.
BulkRegistries ==
    { [exists |-> TRUE, servers |-> sm, exclusions |-> ex, agentsOff |-> off] :
        sm \in { m \in [Names -> ServerInputs] :
                   /\ m["s2"] \in PushServers
                   /\ \A a \in DOMAIN m["s1"].agents : ~m["s1"].agents[a] },
        ex \in { e \in SUBSET { [server |-> "s1", agent |-> a] : a \in installed } :
                   Cardinality(e) <= 1 },
        off \in { d \in SUBSET installed : Cardinality(d) <= 1 } }

BulkArgs == installed \cup Stubs \cup {NoAgent}

BulkOptions == { o \in PushOptions : o.scope = "global" /\ ~o.force /\ ~o.merge }

\* Per agent: the write goes through, or its persist step fails.
BulkIO == { g \in [installed \cup Stubs -> {"ok", "renameFail", "openFail"}] :
              /\ \A a \in installed : g[a] \in IOFor(a)
              /\ \A a \in Stubs : g[a] = "ok" }

StubOptions == [style |-> "options", scope |-> "global", merge |-> FALSE, force |-> FALSE]

InitBulk ==
    /\ installed \in InstalledPairs
    /\ watch = "global"
    /\ config \in BulkRegistries
    /\ fs = [a \in installed \cup Stubs |-> NoFile]
    /\ last = Report("none", 0)

NextBulk ==
    \/ \E a \in installed : UserCreatesFile(a, GarbageContent, CreateMode)
    \/ \E agentArg \in BulkArgs, o \in BulkOptions, ios \in BulkIO :
          Push(agentArg, o, FALSE, ios)
    \/ \E a \in installed \cup Stubs : Validate(a)
    \/ \E a \in Stubs : Write(a, StubOptions, "ok")

SpecBulk == InitBulk /\ [][NextBulk]_vars

\* SpecDetect: the registry detects the agents of an environment, with or
\* without MCP_SYNC_SKIP_DETECT=1, and a bulk push goes to what was detected.
DetectEnvs == [Registered -> DetectOutcomes]

DetectRegistry ==
    [DefaultConfig EXCEPT
        !.servers = [n \in {"s1"} |-> [type |-> "stdio", agents |-> EmptyMap]]]

\* adapterRegistry.detectAll() and getInstalled() in one environment.
DetectAll(skipDetect, env) ==
    /\ last.op = "none"
    /\ installed' = { getInstalled(skipDetect, env)[i] :
                        i \in DOMAIN getInstalled(skipDetect, env) }
    /\ last' = [Report("detectAll", 0) EXCEPT
                  !.detect = [skip |-> skipDetect, env |-> env,
                              results |-> detectAll(skipDetect, env)]]
    /\ UNCHANGED <<watch, config, fs>>

InitDetect ==
    /\ installed = {}
    /\ watch = "global"
    /\ config = DetectRegistry
    /\ fs = [a \in Registered |-> NoFile]
    /\ last = Report("none", 0)

NextDetect ==
    \/ \E skipDetect \in BOOLEAN, env \in DetectEnvs : DetectAll(skipDetect, env)
    \/ \E o \in BulkOptions :
          /\ last.op = "detectAll"
          /\ Push(NoAgent, o, FALSE, [a \in Registered |-> "ok"])

SpecDetect == InitDetect /\ [][NextDetect]_vars

\* SpecRegistry: one ConfigManager is called again and again, also after a
\* call has thrown; now and then a new manager takes its place (a new CLI
\* process).  A file that exists at the start holds the stdio server s1 and
\* exclusion rules the user wrote: one for s1, possibly one for s2.
StdioEntry == [type |-> "stdio", agents |-> EmptyMap, command |-> TRUE, url |-> "none"]

HttpEntry(url) == [type |-> "http", agents |-> EmptyMap, command |-> FALSE, url |-> url]

\* What addServer is handed: createStdioServer / createHttpServer results,
\* the url valid or not.
NewServers == { StdioEntry, HttpEntry("good"), HttpEntry("bad") }

\* Partial<Server> objects handed to updateServer.
UpdateInputs == [type : ServerTypes \cup {Keep}, url : {Keep, "good"}]

UserExclusions == { [server |-> n, agent |-> "amp"] : n \in Names }

Manager(exists, servers, exclusions) ==
    [exists |-> exists, servers |-> servers, exclusions |-> exclusions,
     agentsOff |-> {}, cache |-> NoCache]

ApiReport(op, n, force, r) ==
    [Report(op, IF r.threw THEN 1 ELSE 0) EXCEPT
        !.api = Api(n, force, r.threw, r.err, r.ret)]

CallInit(overwrite) ==
    /\ LET r == init(config, overwrite)
       IN  /\ config' = r.m
           /\ last' = ApiReport("init", "none", overwrite, r)
    /\ UNCHANGED <<installed, watch, fs>>

CallAddServer(n, server) ==
    /\ LET r == addServer(config, n, server)
       IN  /\ config' = r.m
           /\ last' = ApiReport("addServer", n, FALSE, r)
    /\ UNCHANGED <<installed, watch, fs>>

CallRemoveServer(n) ==
    /\ LET r == removeServer(config, n)
       IN  /\ config' = r.m
           /\ last' = ApiReport("removeServer", n, FALSE, r)
    /\ UNCHANGED <<installed, watch, fs>>

CallUpdateServer(n, updates) ==
    /\ LET r == updateServer(config, n, updates)
       IN  /\ config' = r.m
           /\ last' = ApiReport("updateServer", n, FALSE, r)
    /\ UNCHANGED <<installed, watch, fs>>

\* new ConfigManager(): nothing loaded yet.
NewManager ==
    /\ config.cache.loaded
    /\ config' = [config EXCEPT !.cache = NoCache]
    /\ last' = Report("new", 0)
    /\ UNCHANGED <<installed, watch, fs>>

InitRegistry ==
    /\ installed = {"amp"}
    /\ watch = "global"
    /\ \/ config = Manager(FALSE, EmptyMap, {})
       \/ \E ex \in SUBSET UserExclusions :
             /\ [server |-> "s1", agent |-> "amp"] \in ex
             /\ config = Manager(TRUE, [n \in {"s1"} |-> StdioEntry], ex)
    /\ fs = [a \in installed |-> NoFile]
    /\ last = Report("none", 0)

NextRegistry ==
    \/ \E overwrite \in BOOLEAN : CallInit(overwrite)
    \/ \E n \in Names, server \in NewServers : CallAddServer(n, server)
    \/ \E n \in Names : CallRemoveServer(n)
    \/ \E n \in Names, updates \in UpdateInputs : CallUpdateServer(n, updates)
    \/ NewManager

SpecRegistry == InitRegistry /\ [][NextRegistry]_vars

\* SpecFeatures: one agent; the registry's servers carry an autoApprove
\* value and, for stdio, possibly a working directory, and the defaults
\* carry an autoApprove value; validate() and the loop of write() run on it.
FeatureAgents == {"gemini-cli", "roo-code", "opencode", "amp"}

ApproveInputs ==
    { ApproveUnset, ApproveFalse, ApproveTrue,
      Approve("array", <<>>), Approve("array", <<"t1">>) }

FeatureServers ==
    { sv \in [type : ServerTypes, agents : {EmptyMap},
              autoApprove : ApproveInputs, cwd : BOOLEAN] :
        sv.cwd => sv.type = "stdio" }

FeatureRegistries ==
    { [exists |-> TRUE, servers |-> sm, exclusions |-> {}, agentsOff |-> {},
       defaults |-> [autoApprove |-> d]] :
        sm \in { m \in [Names -> FeatureServers] :
                   /\ m["s2"].type = "stdio" /\ ~m["s2"].cwd
                   /\ m["s2"].autoApprove \in {ApproveUnset, ApproveTrue} },
        d \in ApproveInputs }

\* adapter.validate(config), warnings included.
ValidateFeatures(a) ==
    /\ last' = [Report("validate", 0) EXCEPT
                  !.agent = a,
                  !.val = validate(a, config.servers),
                  !.feat = [fields |-> EmptyMap, warnings |-> validateWarnings(a, config)]]
    /\ UNCHANGED <<installed, watch, config, fs>>

\* The transform loop of adapter.write(config): records and warnings.
WriteLoop(a) ==
    /\ last' = [Report("writeLoop", 0) EXCEPT
                  !.agent = a, !.feat = writeApprovals(a, config)]
    /\ UNCHANGED <<installed, watch, config, fs>>

InitFeatures ==
    /\ installed \in { {a} : a \in FeatureAgents }
    /\ watch = "global"
    /\ config \in FeatureRegistries
    /\ fs = [a \in installed |-> NoFile]
    /\ last = Report("none", 0)

NextFeatures ==
    \/ \E a \in installed : ValidateFeatures(a)
    \/ \E a \in installed : WriteLoop(a)

SpecFeatures == InitFeatures /\ [][NextFeatures]_vars

\* ------------------------------------------------------------------------
\* Properties
\* ------------------------------------------------------------------------

\* The agents the last command called write() for.
Written == DOMAIN last.res

DirectWrite == last.op = "write"

Subtree(f) == f.content.mcp

Parseable(f) == f.content.kind = "json"

Malformed(f) == f.content.kind = "garbage"

\* C1: after a successful write with merge unset or false onto a parseable
\* existing agent file, the file's MCP-server subtree is exactly the set of
\* native records computed from the registry.
ReplaceWritesExactlyComputed ==
    \A a \in Written :
        (DirectWrite /\ last.res[a].ok /\ ~last.res[a].merge /\ Parseable(last.res[a].before))
            => Subtree(fs[a]) = computeServers(a, config)

\* C2: after any sequence of add and remove followed by a replace-mode push
\* that ends without error for an installed, enabled agent, the agent file
\* holds no server that is absent from the canonical registry.
PushLeavesNoStaleServer ==
    \A a \in installed :
        (/\ last.op = "push" /\ last.exit = 0
         /\ ~last.flags.merge /\ ~last.flags.dryRun
         /\ a \notin config.agentsOff
         /\ (a \in DOMAIN last.status => last.status[a] = "success"))
            => DOMAIN Subtree(fs[a]) \subseteq DOMAIN config.servers

\* C3: a successful write, merge or replace, onto a parseable existing file
\* leaves every top-level key other than the MCP root key as it was.
WritePreservesOtherKeys ==
    \A a \in Written :
        (DirectWrite /\ last.res[a].ok /\ Parseable(last.res[a].before))
            => fs[a].content.other = last.res[a].before.content.other

\* C4: after a successful write with merge: true the subtree is the previous
\* subtree overlaid with the computed servers: every computed server is there
\* with its new record, every other previous entry is there unchanged, and
\* nothing else is.
MergeOverlaysComputed ==
    \A a \in Written :
        (DirectWrite /\ last.res[a].ok /\ last.res[a].merge)
            => LET prev == Subtree(last.res[a].before)
                   comp == computeServers(a, config)
                   now  == Subtree(fs[a])
               IN  /\ DOMAIN now = DOMAIN prev \cup DOMAIN comp
                   /\ \A n \in DOMAIN comp : now[n] = comp[n]
                   /\ \A n \in DOMAIN prev \ DOMAIN comp : now[n] = prev[n]

\* A merge write that replaced an existing entry of the same name and kept
\* an entry the registry does not have.
MergeOverlayWitness ==
    \E a \in Written :
        /\ DirectWrite /\ last.res[a].ok /\ last.res[a].merge
        /\ \E n \in DOMAIN computeServers(a, config) :
              /\ n \in DOMAIN Subtree(last.res[a].before)
              /\ Subtree(last.res[a].before)[n] # computeServers(a, config)[n]
        /\ \E n \in DOMAIN Subtree(fs[a]) : n \notin DOMAIN computeServers(a, config)

\* C5: a second merge write with the same registry leaves the subtree as the
\* first merge write left it.
MergeTwiceIdempotent ==
    \A a \in Written :
        (DirectWrite /\ last.res[a].again)
            => Subtree(fs[a]) = Subtree(last.res[a].before)

\* Two merge writes in a row that had servers to write onto existing entries.
MergeTwiceWitness ==
    \E a \in Written :
        /\ DirectWrite /\ last.res[a].again
        /\ computeServers(a, config) # EmptyMap
        /\ DOMAIN Subtree(fs[a]) # DOMAIN computeServers(a, config)

\* C6: a write without force onto an existing file that cannot be parsed
\* fails with an error naming the path and leaves the file, its backup and
\* its temp file as they were.
ParseFailureWithoutForceFails ==
    \A a \in Written :
        (DirectWrite /\ Malformed(last.res[a].before) /\ ~last.res[a].force)
            => /\ ~last.res[a].ok
               /\ last.res[a].err.kind = "parse"
               /\ last.res[a].err.namesPath
               /\ fs[a] = last.res[a].before

\* C7: push --force onto an agent file that cannot be parsed succeeds for
\* that agent (short of an I/O failure) and leaves exactly the computed
\* subtree and no other key.
PushForceOverwritesMalformed ==
    \A a \in Written :
        (/\ last.op = "push" /\ last.res[a].force
         /\ Malformed(last.res[a].before)
         /\ last.res[a].err.kind # "io")
            => /\ last.status[a] = "success"
               /\ fs[a].content = JsonContent({}, computeServers(a, config))

\* C8: when persisting fails, the agent file still holds its complete
\* previous content, no temp file remains and the error reaches the caller.
FailedPersistLeavesTargetIntact ==
    \A a \in Written :
        (DirectWrite /\ last.res[a].err.kind = "io")
            => /\ fs[a].content = last.res[a].before.content
               /\ ~fs[a].tmp
               /\ last.res[a].threw

\* C9: a write that overwrites an existing file leaves a copy of the previous
\* content at .bak with mode 0600 and reports the backup path; a write that
\* creates the file leaves .bak alone and reports none.
BackupIsOwnerOnlyCopy ==
    \A a \in Written :
        (DirectWrite /\ last.res[a].ok)
            => IF Exists(last.res[a].before)
               THEN /\ fs[a].bak = last.res[a].before.content
                    /\ fs[a].bakMode = Mode600
                    /\ last.res[a].ret
               ELSE /\ fs[a].bak = last.res[a].before.bak
                    /\ ~last.res[a].ret

ExcludedFor(a) == { e.server : e \in { x \in config.exclusions : x.agent = a } }

DisabledFor(a) ==
    { n \in DOMAIN config.servers :
        a \in DOMAIN config.servers[n].agents /\ ~config.servers[n].agents[a] }

PushWrote == last.op = "push" /\ ~last.flags.dryRun

\* C11 as stated: when a push has called write() for several agents, a
\* server whose override for one of them says enabled: false is absent from
\* what is computed for that agent and is computed for every other agent
\* whose override does not disable it.
DisabledOnlyForItsAgent ==
    \A a \in Written :
        PushWrote =>
            \A n \in DisabledFor(a) :
                /\ n \notin DOMAIN computeServers(a, config)
                /\ \A b \in Written \ {a} :
                      n \notin DisabledFor(b) => n \in DOMAIN computeServers(b, config)

\* C11 amended: the disabled server is absent from what is computed for that
\* agent, and it is computed for another agent exactly when that agent
\* neither disables it by override nor has an exclusion rule for it.
DisabledOnlyForItsAgentUnlessExcluded ==
    \A a \in Written :
        PushWrote =>
            \A n \in DisabledFor(a) :
                /\ n \notin DOMAIN computeServers(a, config)
                /\ \A b \in (Written \cap Adapters) \ {a} :
                      n \in DOMAIN computeServers(b, config)
                          <=> (n \notin DisabledFor(b) /\ n \notin ExcludedFor(b))

\* A bulk push wrote two agent files: the one of the agent that disables the
\* server lacks it, the other agent's file has it.
DisabledWitness ==
    \E a \in Written, b \in Written :
        /\ PushWrote /\ a # b
        /\ last.res[a].ok /\ last.res[b].ok
        /\ \E n \in DisabledFor(a) :
              /\ n \notin DOMAIN Subtree(fs[a])
              /\ n \in DOMAIN Subtree(fs[b])
              /\ Subtree(fs[a]) # EmptyMap

\* The agents a push was pointed at: the named one, or every installed one.
PushTargets ==
    IF last.agent = NoAgent THEN installed ELSE {last.agent} \cap Agents

\* C12: when the registry has a server with a capability error for an agent
\* (an HTTP server, the agent without HTTP support), a push to that agent is
\* not aborted: the agent does not end as a failure and every other
\* includable server of the registry is in the agent's file afterwards.
CapabilityErrorDropsOnlyThatServer ==
    \A a \in PushTargets :
        (/\ PushWrote
         /\ a \notin config.agentsOff
         /\ validateErrors(a, config.servers) # {})
            => /\ last.exit = 0
               /\ a \in DOMAIN last.status
               /\ last.status[a] = "success"
               /\ \A n \in DOMAIN config.servers \ validateErrors(a, config.servers) :
                     shouldIncludeServer(a, n, config.servers[n], config)
                         => n \in DOMAIN Subtree(fs[a])

BulkPush == PushWrote /\ last.agent = NoAgent /\ last.exit = 0

Position(a) == CHOOSE i \in DOMAIN AdapterOrder : AdapterOrder[i] = a

\* C13 as stated: in a bulk push every agent of the list is processed and
\* written whatever happened to the agents before it, a failed write is that
\* agent's failure only, and the summary counts each agent exactly once, as
\* a success or as a failure.
BulkPushCountsEveryAgentOnce ==
    BulkPush =>
        /\ DOMAIN last.status = installed
        /\ \A a \in installed :
              /\ a \in Written
              /\ last.status[a] = (IF last.res[a].ok THEN "success" ELSE "error")
        /\ last.successCount + last.errorCount = Cardinality(installed)

\* C13 amended: the same for every agent that the registry's agents section
\* does not disable; a disabled agent is skipped, is not written and is
\* counted neither as a success nor as a failure.
BulkPushIsolatesFailures ==
    BulkPush =>
        /\ DOMAIN last.status = installed
        /\ \A a \in installed \ config.agentsOff :
              /\ a \in Written
              /\ last.status[a] = (IF last.res[a].ok THEN "success" ELSE "error")
        /\ \A a \in installed \cap config.agentsOff :
              a \notin Written /\ last.status[a] = "skipped"
        /\ last.successCount =
              Cardinality({ a \in installed : last.status[a] = "success" })
        /\ last.errorCount =
              Cardinality({ a \in installed : last.status[a] = "error" })
        /\ last.successCount + last.errorCount =
              Cardinality(installed \ config.agentsOff)

\* A bulk push in which the write for an earlier agent failed and a later
\* agent's file was still written.
BulkPushWitness ==
    \E a \in Written, b \in Written :
        /\ BulkPush
        /\ Position(a) < Position(b)
        /\ ~last.res[a].ok /\ last.status[a] = "error"
        /\ last.res[b].ok /\ last.status[b] = "success"
        /\ fs[b] # last.res[b].before
        /\ last.successCount = 1 /\ last.errorCount = 1

\* C14: a push that names one agent and ends with an error for that agent
\* (validation error, unsuccessful write result or thrown write error)
\* terminates with a non-zero exit status.
SingleAgentPushErrorExitsNonZero ==
    (/\ last.op = "push"
     /\ last.agent # NoAgent
     /\ last.agent \in DOMAIN last.status
     /\ last.status[last.agent] = "error")
        => last.exit # 0

HttpServers == { n \in DOMAIN config.servers : config.servers[n].type = "http" }

\* C15: for an agent whose capabilities have supportsHttp false, validate
\* reports an error issue for every HTTP server of the registry (so valid is
\* false when there is one), and no HTTP server is ever in what that agent's
\* write has produced.
HttpRejectedWithoutHttpSupport ==
    /\ (last.op = "validate" /\ ~supportsHttp(last.agent))
           => /\ HttpServers \subseteq last.val.errors
              /\ (HttpServers # {} => ~last.val.valid)
    /\ \A a \in DOMAIN fs :
          ~supportsHttp(a) => \A n \in HttpServers : n \notin DOMAIN Subtree(fs[a])

\* validate() was called for an agent without HTTP support on a registry
\* that has an HTTP server next to a stdio server.
HttpRejectedWitness ==
    /\ last.op = "validate"
    /\ ~supportsHttp(last.agent)
    /\ HttpServers # {}
    /\ HttpServers # DOMAIN config.servers
    /\ last.val.errors = HttpServers
    /\ ~last.val.valid

\* ------------------------------------------------------------------------
\* Properties of the environment-reference rewriters
\* ------------------------------------------------------------------------

Rewritten == last.op = "transformEnv" /\ ~last.env.again

RewrittenTwice == last.op = "transformEnv" /\ last.env.again

Kinds(parts) == { parts[i].kind : i \in DOMAIN parts }

\* A bare $VAR piece is not followed by text that would read as more of its
\* name.
BareEndsClean(parts) ==
    \A i \in DOMAIN parts :
        (parts[i].kind = "bare" /\ i < Len(parts))
            => Head(parts[i + 1].text) \notin IdentChar

\* Literal text, spans already in the target dialect and canonical
\* references, and nothing else.
Mixed(parts) ==
    /\ Kinds(parts) \subseteq {"lit", "conv", "braced", "default", "bare"}
    /\ BareEndsClean(parts)

\* What the value should become piece by piece: a canonical reference turns
\* into the target dialect's reference to its variable, anything else stays.
RECURSIVE Expected(_, _)
Expected(a, parts) ==
    IF parts = <<>> THEN <<>>
    ELSE (IF Head(parts).kind \in {"braced", "default", "bare"}
          THEN DialectOpen(a) \o Head(parts).var \o <<"}">>
          ELSE Head(parts).text) \o Expected(a, Tail(parts))

DefaultWarning == { [server |-> EnvServer, key |-> EnvKey] }

\* C17: a value that contains a ${VAR:-default} reference comes out with
\* every reference in the target dialect and nothing of the default left,
\* and a warning names the server and the key; a value without such a
\* reference adds no warning.
DefaultDroppedWithWarning ==
    (Rewritten /\ Mixed(last.env.parts))
        => IF "default" \in Kinds(last.env.parts)
           THEN /\ last.env.out = Expected(last.agent, last.env.parts)
                /\ last.env.warnings = DefaultWarning
           ELSE last.env.warnings = {}

\* C18: a value whose only dollar-prefixed text is lowercase ($var),
\* mixed-case ($Var) or numeric ($1.1) is returned unchanged and without a
\* warning.
NonIdentifierDollarUnchanged ==
    (/\ Rewritten
     /\ Kinds(last.env.parts) \subseteq {"lit", "dollar"}
     /\ "dollar" \in Kinds(last.env.parts))
        => /\ last.env.out = last.env.value
           /\ last.env.warnings = {}

\* C19: a value that mixes literal text, spans already in the target dialect
\* and canonical references comes out with every canonical reference in the
\* target dialect and every other piece as it was, in the same order.
MixedValueRewrittenPieceByPiece ==
    (Rewritten /\ Mixed(last.env.parts))
        => last.env.out = Expected(last.agent, last.env.parts)

\* ------------------------------------------------------------------------
\* Properties of Codex's header routing
\* ------------------------------------------------------------------------

HasRef(parts) == "braced" \in Kinds(parts)

PureRef(parts) == Len(parts) = 1 /\ parts[1].kind = "braced"

RefVars(parts) == { parts[i].var : i \in { j \in DOMAIN parts : parts[j].kind = "braced" } }

\* C20: every header of a Codex HTTP server lands in exactly one place: an
\* Authorization header that contains a reference becomes
\* bearer_token_env_var and is in neither map; any other header that is one
\* ${VAR} reference is in env_http_headers with the bare name; every
\* remaining header is in http_headers with its value verbatim.
CodexHeadersLandInOnePlace ==
    last.op = "transformHttp" =>
        LET server == config.servers["s1"]
            out    == last.native
        IN  \A k \in DOMAIN server.headers :
                IF k = "Authorization" /\ HasRef(server.parts[k])
                THEN /\ out.bearer_token_env_var \subseteq RefVars(server.parts[k])
                     /\ out.bearer_token_env_var # {}
                     /\ k \notin DOMAIN out.http_headers
                     /\ k \notin DOMAIN out.env_http_headers
                ELSE IF PureRef(server.parts[k])
                THEN /\ k \in DOMAIN out.env_http_headers
                     /\ out.env_http_headers[k] = server.parts[k][1].var
                     /\ k \notin DOMAIN out.http_headers
                ELSE /\ k \in DOMAIN out.http_headers
                     /\ out.http_headers[k] = server.headers[k]
                     /\ k \notin DOMAIN out.env_http_headers

\* ------------------------------------------------------------------------
\* Properties of autoApprove, cwd and validation warnings
\* ------------------------------------------------------------------------

WroteLoop == last.op = "writeLoop"

Effective(n) == effectiveAutoApprove(config.servers[n], config)

ApprovalFieldName(a) ==
    CASE a = "gemini-cli" -> "trust"
      [] a = "roo-code"   -> "alwaysAllow"
      [] a = "opencode"   -> "autoApprove"
      [] OTHER            -> "none"

\* The effective value is one the agent has a place for.
Representable(a, e) ==
    IF a = "gemini-cli" THEN e.kind = "true"
    ELSE isArray(e) /\ Len(e.tools) > 0

\* The effective value asks for an approval the agent cannot express.
Unrepresentable(a, e) ==
    IF a = "gemini-cli" THEN isArray(e) ELSE e.kind = "true"

\* C21: with the effective autoApprove being the server's value when set
\* and the defaults' value otherwise, Gemini CLI emits trust: true exactly
\* when it is true, Roo Code (alwaysAllow) and OpenCode (autoApprove) emit
\* the tool list exactly when it is a non-empty array, and in the
\* unrepresentable case (an array for Gemini CLI, true for the other two)
\* nothing is emitted and a warning names the server.
ApprovalOnlyInRepresentableShape ==
    (WroteLoop /\ supportsAutoApprove(last.agent)) =>
        \A n \in DOMAIN last.feat.fields :
            LET e   == IF config.servers[n].autoApprove.kind # "unset"
                       THEN config.servers[n].autoApprove
                       ELSE config.defaults.autoApprove
                out == last.feat.fields[n]
            IN  /\ IF Representable(last.agent, e)
                   THEN out = [field |-> ApprovalFieldName(last.agent), value |-> e]
                   ELSE out.field = "none"
                /\ Unrepresentable(last.agent, e)
                      => /\ out.field = "none"
                         /\ Issue(n, "approval") \in last.feat.warnings

\* One write loop met a server whose inherited value is emitted and a server
\* whose own value cannot be represented and is warned about.
ApprovalWitness ==
    /\ WroteLoop /\ supportsAutoApprove(last.agent)
    /\ \E n \in DOMAIN last.feat.fields, m \in DOMAIN last.feat.fields :
          /\ config.servers[n].autoApprove.kind = "unset"
          /\ last.feat.fields[n].field # "none"
          /\ config.servers[m].autoApprove.kind # "unset"
          /\ last.feat.fields[m].field = "none"
          /\ Issue(m, "approval") \in last.feat.warnings
          /\ Issue(n, "approval") \notin last.feat.warnings

CwdServers == { n \in DOMAIN config.servers : config.servers[n].cwd }

\* C22: for a stdio server that sets a working directory, validate on an
\* agent with supportsCwd false returns a warning about cwd for that server
\* and still reports valid: true; on an agent with supportsCwd true it
\* returns no cwd issue.
CwdWarnedWhereUnsupported ==
    (last.op = "validate" /\ last.agent \in FeatureAgents) =>
        \A n \in CwdServers :
            IF supportsCwd(last.agent)
            THEN Issue(n, "cwd") \notin last.feat.warnings
            ELSE /\ Issue(n, "cwd") \in last.feat.warnings
                 /\ last.val.valid

\* ------------------------------------------------------------------------
\* Properties of agent detection
\* ------------------------------------------------------------------------

\* C23: detectAll returns one result for every registered adapter; a stub
\* adapter is reported installed: false in every case, also when
\* MCP_SYNC_SKIP_DETECT=1 makes every other adapter installed: true; an
\* adapter whose detect throws is reported installed: false; so getInstalled
\* and a bulk push never include a stub adapter.
StubNeverDetectedInstalled ==
    /\ last.op = "detectAll" =>
          /\ DOMAIN last.detect.results = Agents
          /\ \A a \in Stubs : ~last.detect.results[a].installed
          /\ last.detect.skip => \A a \in Adapters : last.detect.results[a].installed
          /\ \A a \in Agents :
                (~last.detect.skip /\ last.detect.env[a] = "throws")
                    => ~last.detect.results[a].installed
          /\ installed = { a \in Agents : last.detect.results[a].installed }
    /\ installed \cap Stubs = {}
    /\ last.op = "push" =>
          /\ DOMAIN last.status \cap Stubs = {}
          /\ Written \cap Stubs = {}
          /\ \A a \in Stubs : fs[a] = NoFile

\* A bulk push after a detection that found every implemented adapter
\* installed (as MCP_SYNC_SKIP_DETECT=1 makes it): every implemented
\* adapter was written, the stub was not.
StubNeverDetectedWitness ==
    /\ last.op = "push" /\ last.agent = NoAgent
    /\ installed = Adapters
    /\ \A a \in Adapters : a \in Written /\ last.res[a].ok /\ Exists(fs[a])
    /\ \A a \in Stubs : ~Exists(fs[a])

\* ------------------------------------------------------------------------
\* Properties of dry runs and of the canonical registry
\* ------------------------------------------------------------------------

\* C24: a push run with --dry-run creates, modifies and backs up no agent
\* config file: every agent file with its .bak is the same after the command
\* as before it, and the canonical registry is unchanged.
DryRunPushTouchesNothing ==
    [][(last'.op = "push" /\ last'.flags.dryRun) => (fs' = fs /\ config' = config)]_vars

\* A dry-run push that reported success for an agent whose file does not
\* exist, on a registry that has a server for it.
DryRunWitness ==
    /\ last.op = "push" /\ last.flags.dryRun
    /\ \E a \in installed :
          /\ a \in DOMAIN last.status /\ last.status[a] = "success"
          /\ computeServers(a, config) # EmptyMap
          /\ ~Exists(fs[a])
          /\ fs[a].bak = AbsentContent

\* C25: init overwrites an existing canonical config only when force is
\* given: without --force, init on an existing config fails (non-zero exit,
\* a message saying the config already exists) and leaves the config
\* unchanged; with --force the config is reset to the defaults with an empty
\* server map.
InitOverwritesOnlyWithForce ==
    [][(last'.op = "init" /\ config.exists) =>
          IF last'.api.force
          THEN config' = DefaultConfig /\ last'.exit = 0
          ELSE /\ last'.exit # 0
               /\ last'.api.err.kind = "configExists"
               /\ config' = config]_vars

\* The file's content.
Persisted(m) == [exists |-> m.exists, servers |-> m.servers, exclusions |-> m.exclusions]

\* The registry the manager works on: the loaded copy, or the file's
\* content when nothing is loaded yet.
Registry(m) ==
    IF m.cache.loaded
    THEN [servers |-> m.cache.servers, exclusions |-> m.cache.exclusions]
    ELSE [servers |-> m.servers, exclusions |-> m.exclusions]

HasRegistry(m) == m.cache.loaded \/ m.exists

\* C26: addServer with a name that is already present in the registry fails
\* with an 'already exists' error and leaves the existing entries and the
\* persisted registry unchanged, after any sequence of operations.
AddExistingNameFails ==
    [][(/\ last'.op = "addServer"
        /\ HasRegistry(config)
        /\ last'.api.name \in DOMAIN Registry(config).servers)
          => /\ last'.api.threw
             /\ last'.api.err.kind = "serverExists"
             /\ Registry(config') = Registry(config)
             /\ Persisted(config') = Persisted(config)]_vars

\* addServer has just failed with 'already exists' on a registry of two
\* servers, which it left in place.
AddExistingNameWitness ==
    /\ last.op = "addServer"
    /\ last.api.threw /\ last.api.err.kind = "serverExists"
    /\ DOMAIN config.servers = Names
    /\ config.cache.servers = config.servers

\* C27: the type of a registry entry never changes after the entry is
\* created: no updateServer call on an existing name leaves the entry with
\* another type.
TypeNeverChanges ==
    [][last'.op = "updateServer" =>
          \A n \in DOMAIN config.servers \cap DOMAIN config'.servers :
              config'.servers[n].type = config.servers[n].type]_vars

\* The field paths a schema check has to report for these servers.
Offending(servers) ==
    { Path(n, "command") :
        n \in { m \in DOMAIN servers : servers[m].type = "stdio" /\ ~servers[m].command } }
    \cup { Path(n, "url") :
             n \in { m \in DOMAIN servers : servers[m].type = "http" /\ servers[m].url # "good" } }

\* The step is an add, update, remove or init that got as far as save().
ReachedSave ==
    /\ last'.op \in {"init", "addServer", "updateServer", "removeServer"}
    /\ last'.api.err.kind \in {"none", "schema"}
    /\ ~(last'.op = "removeServer" /\ ~last'.api.threw /\ ~last'.api.ret)

\* C28: when an add, update or save would persist a registry that fails
\* schema validation, the operation fails with an error that lists the
\* offending field paths, and the persisted file keeps its previous content.
SchemaFailureKeepsFile ==
    [][/\ (ReachedSave /\ Offending(config'.cache.servers) # {})
            => /\ last'.api.threw
               /\ last'.api.err = Err("schema", Offending(config'.cache.servers))
               /\ Persisted(config') = Persisted(config)
       /\ Persisted(config') # Persisted(config)
            => ~last'.api.threw /\ Offending(config'.servers) = {}]_vars

\* updateServer has just failed on a type change that lacks the url: the
\* error lists the url path, the file still has the stdio entry.
SchemaFailureWitness ==
    /\ last.op = "updateServer"
    /\ last.api.threw /\ last.api.err.kind = "schema"
    /\ Path(last.api.name, "url") \in last.api.err.paths
    /\ config.servers[last.api.name] = StdioEntry
    /\ config.cache.servers[last.api.name].type = "http"

\* C29: removeServer deletes the named server together with every exclusion
\* rule that names it and keeps the other rules, so after remove(name)
\* followed by add(name) the server is excluded for no agent; removeServer
\* on a name that is not in the registry returns false and changes neither
\* the registry nor the persisted file.
RemoveDropsExclusions ==
    [][/\ (last'.op = "removeServer" /\ HasRegistry(config))
            => IF last'.api.name \notin DOMAIN Registry(config).servers
               THEN /\ ~last'.api.threw /\ ~last'.api.ret
                    /\ Registry(config') = Registry(config)
                    /\ Persisted(config') = Persisted(config)
               ELSE ~last'.api.threw
                        => /\ last'.api.ret
                           /\ last'.api.name \notin DOMAIN config'.servers
                           /\ config'.exclusions =
                                 { e \in Registry(config).exclusions :
                                     e.server # last'.api.name }
       /\ (/\ last.op = "removeServer" /\ last.api.ret
           /\ last'.op = "addServer" /\ last'.api.name = last.api.name
           /\ ~last'.api.threw)
            => /\ last'.api.name \in DOMAIN config'.servers
               /\ \A e \in config'.exclusions : e.server # last'.api.name]_vars

\* s1, which started as a stdio server with an exclusion rule, has been
\* removed and added again as an http server: no rule names it, and the rule
\* for s2 is still there.
RemoveDropsExclusionsWitness ==
    /\ last.op = "addServer" /\ last.api.name = "s1" /\ ~last.api.threw
    /\ config.servers["s1"] = HttpEntry("good")
    /\ config.exclusions = { [server |-> "s2", agent |-> "amp"] }

\* The agents whose write() persists through atomicWrite with backup: true.
BackupEnabled == installed \ {"codex", "claude-code"}

SuccessfulWrite(l, a) == l.op = "write" /\ a \in DOMAIN l.res /\ l.res[a].ok

\* C30: after two or more successful writes with backup enabled to the same
\* agent file, the .bak file holds the content the target had immediately
\* before the most recent write, which is the content the previous write
\* produced.
BackupHoldsPreviousWrite ==
    [][\A a \in BackupEnabled :
          (SuccessfulWrite(last, a) /\ SuccessfulWrite(last', a))
              => /\ Exists(fs[a])
                 /\ fs'[a].bak = fs[a].content
                 /\ last'.res[a].before.content = fs[a].content]_vars

\* A successful write over a file that already had a backup: the backup now
\* holds the content the write found, and no longer the older content.
BackupHoldsPreviousWriteWitness ==
    \E a \in BackupEnabled :
        /\ SuccessfulWrite(last, a)
        /\ Exists(last.res[a].before)
        /\ last.res[a].before.bak # AbsentContent
        /\ last.res[a].before.bak # last.res[a].before.content
        /\ fs[a].bak = last.res[a].before.content
        /\ fs[a].content # fs[a].bak

====
